---- MODULE Spec2Model ----
(***************************************************************************)
(* Model of api/generate.js: the MaxMovies AI serverless chat endpoint.    *)
(*                                                                         *)
(* A JavaScript string is a tuple of symbols.  A symbol is one character   *)
(* ("h", "A", " ") or an atom that stands for one fixed literal of the     *)
(* source (the seeded system prompt, an instruction sentence, the fallback *)
(* apology).  Concatenation is \o.  Other JavaScript values are tagged     *)
(* records [t |-> type, v |-> tuple].                                      *)
(***************************************************************************)
EXTENDS Integers, Sequences, FiniteSets, TLC

----------------------------------------------------------------------------
(* JavaScript values *)

Str(s) == [t |-> "string", v |-> s]
Undefined == [t |-> "undefined", v |-> <<>>]
Null == [t |-> "null", v |-> <<>>]
Num(s) == [t |-> "number", v |-> s]

IsString(x) == x.t = "string"

\* JavaScript truthiness (the `!x` / `if (x)` / `x || y` tests of the handler)
Truthy(x) ==
  CASE x.t = "undefined" -> FALSE
    [] x.t = "null" -> FALSE
    [] x.t = "string" -> x.v # <<>>
    [] x.t = "number" -> x.v # <<"0">>
    [] OTHER -> TRUE

\* String(x) as a template literal `${x}` renders it
TemplateString(x) ==
  CASE x.t = "undefined" -> <<"u","n","d","e","f","i","n","e","d">>
    [] x.t = "null" -> <<"n","u","l","l">>
    [] OTHER -> x.v

----------------------------------------------------------------------------
(* String primitives *)

UpperToLower ==
  [c \in {"A","B","H","I","L","M","N","P","Q","S"} |->
     CASE c = "A" -> "a" [] c = "B" -> "b" [] c = "H" -> "h" [] c = "I" -> "i"
       [] c = "L" -> "l" [] c = "M" -> "m" [] c = "N" -> "n" [] c = "P" -> "p"
       [] c = "Q" -> "q" [] c = "S" -> "s"]

LowerChar(c) == IF c \in DOMAIN UpperToLower THEN UpperToLower[c] ELSE c

\* String.prototype.toLowerCase
ToLowerCase(s) == [i \in 1..Len(s) |-> LowerChar(s[i])]

\* w occurs in s starting at position i
MatchesAt(s, i, w) ==
  /\ i + Len(w) - 1 <= Len(s)
  /\ \A k \in 1..Len(w) : s[i + k - 1] = w[k]

\* String.prototype.includes
Includes(s, w) == \E i \in 1..(Len(s) + 1) : MatchesAt(s, i, w)

WhiteSpace == {" ", "\n", "\t"}

RECURSIVE TrimStart(_)
TrimStart(s) ==
  IF s # <<>> /\ Head(s) \in WhiteSpace THEN TrimStart(Tail(s)) ELSE s

RECURSIVE TrimEnd(_)
TrimEnd(s) ==
  IF s # <<>> /\ s[Len(s)] \in WhiteSpace
  THEN TrimEnd(SubSeq(s, 1, Len(s) - 1)) ELSE s

\* String.prototype.trim
Trim(s) == TrimEnd(TrimStart(s))

\* number of elements of the list ws that satisfy the test (Array.filter(..).length)
RECURSIVE FilterCount(_, _)
FilterCount(ws, s) ==
  IF ws = <<>> THEN 0
  ELSE (IF Includes(s, Head(ws)) THEN 1 ELSE 0) + FilterCount(Tail(ws), s)

----------------------------------------------------------------------------
(* detectLanguage *)

swahiliWords == <<
  <<"h","a","b","a","r","i">>, <<"s","a","s","a">>, <<"n","i","k","o">>,
  <<"k","w","a","n","i">>, <<"b","a","s","i">>, <<"n","d","i","o">>,
  <<"k","a","r","i","b","u">>, <<"a","s","a","n","t","e">>,
  <<"m","a","m","b","o">>, <<"p","o","a">>, <<"s","a","w","a">> >>

shengWords == <<
  <<"b","r","o">>, <<"m","a","z","e">>, <<"m","a","n","z","e">>,
  <<"n","o","m","a">>, <<"f","i","t","i">>, <<"s","a","f","i">>,
  <<"b","u","d","a">>, <<"m","s","e","e">>, <<"m","w","a","n","a">>,
  <<"p","o","a">>, <<"v","i","b","e">> >>

SwahiliThreshold == 3

\* detectLanguage counting a keyword of both lists once
detectLanguageDedup(text) ==
  IF ~Truthy(text) \/ ~IsString(text) THEN "english"
  ELSE LET lower == ToLowerCase(text.v)
           words == {swahiliWords[i] : i \in DOMAIN swahiliWords}
                      \cup {shengWords[i] : i \in DOMAIN shengWords}
           count == Cardinality({w \in words : Includes(lower, w)})
       IN  IF count = 0 THEN "english"
           ELSE IF count < SwahiliThreshold THEN "mixed"
           ELSE "swahili"

detectLanguage(text) ==
  IF ~Truthy(text) \/ ~IsString(text) THEN "english"
  ELSE LET lower == ToLowerCase(text.v)
           swCount == FilterCount(swahiliWords, lower)
           shCount == FilterCount(shengWords, lower)
       IN  IF swCount + shCount = 0 THEN "english"
           ELSE IF swCount + shCount < SwahiliThreshold THEN "mixed"
           ELSE "swahili"

\* the three instruction sentences, one atom each
InstrSwahili == <<"Respond fully in Swahili or Sheng naturally depending on tone.">>
InstrMixed == <<"Respond bilingually - mostly English, with natural Swahili/Sheng flavor.">>
InstrEnglish == <<"Respond in English, friendly Kenyan developer tone.">>

languageInstruction(lang) ==
  IF lang = "swahili" THEN InstrSwahili
  ELSE IF lang = "mixed" THEN InstrMixed
  ELSE InstrEnglish

----------------------------------------------------------------------------
(* reply post-processing *)

AsAnAi == <<"a","s"," ","a","n"," ","a","i">>
LanguageModel == <<"l","a","n","g","u","a","g","e"," ","m","o","d","e","l">>

\* assistantReply.replace(/as an ai|language model/gi, ""): every leftmost
\* non-overlapping match is removed, in one pass
RECURSIVE Sanitize(_)
Sanitize(s) ==
  IF s = <<>> THEN <<>>
  ELSE IF MatchesAt(ToLowerCase(s), 1, AsAnAi)
       THEN Sanitize(SubSeq(s, Len(AsAnAi) + 1, Len(s)))
  ELSE IF MatchesAt(ToLowerCase(s), 1, LanguageModel)
       THEN Sanitize(SubSeq(s, Len(LanguageModel) + 1, Len(s)))
  ELSE <<Head(s)>> \o Sanitize(Tail(s))

Fallback == <<"I couldn't generate a response. Please try again.">>

\* hfResponse.data?.choices?.[0]?.message?.content || Fallback
assistantReply(content) == IF Truthy(content) THEN content ELSE Str(Fallback)

----------------------------------------------------------------------------
(* conversation records *)

BasePrompt == <<"You are **MaxMovies AI** ...">>

SystemTurn == [role |-> "system", content |-> BasePrompt]
UserTurn(text) == [role |-> "user", content |-> text]
AssistantTurn(text) == [role |-> "assistant", content |-> text]

\* the record loadMemory builds when it has nothing to return from disk
FreshMemory(userId) ==
  [userId |-> userId, lastProject |-> Null, lastTask |-> Null,
   conversation |-> <<SystemTurn>>]

\* value of the `memory` local of a request that has not reached loadMemory
NoRecord ==
  [userId |-> Undefined, lastProject |-> Null, lastTask |-> Null,
   conversation |-> <<>>]

MaxTurns == 20
KeepRecent == 19

\* Array.prototype.slice(-n)
SliceLast(s, n) == IF Len(s) <= n THEN s ELSE SubSeq(s, Len(s) - n + 1, Len(s))

\* Cap with slice(-20): one turn too many is kept
CapKeepsTwenty(conv) ==
  IF Len(conv) > MaxTurns THEN <<conv[1]>> \o SliceLast(conv, MaxTurns)
  ELSE conv

\* Cap without the system message put back in front
CapDropsSystem(conv) ==
  IF Len(conv) > MaxTurns THEN SliceLast(conv, MaxTurns) ELSE conv

\* Cap with slice(0, 20): the oldest turns are kept, not the most recent
CapFromFront(conv) ==
  IF Len(conv) > MaxTurns THEN SubSeq(conv, 1, MaxTurns) ELSE conv

\* Cap with slice(-20, -1): the turn just appended is dropped
CapDropsLatest(conv) ==
  IF Len(conv) > MaxTurns
    THEN <<conv[1]>> \o SubSeq(conv, Len(conv) - KeepRecent, Len(conv) - 1)
  ELSE conv

\* lines 169-172: keep the system message and the last 19 entries
Cap(conv) ==
  IF Len(conv) > MaxTurns THEN <<conv[1]>> \o SliceLast(conv, KeepRecent)
  ELSE conv

----------------------------------------------------------------------------
(* storage: a file path is a sequence of segments, a segment a string *)

MEMORY_DIR == <<"/","t","m","p","/","m","e","m","o","r","y">>

RECURSIVE Segments(_, _)
Segments(s, cur) ==
  IF s = <<>> THEN <<cur>>
  ELSE IF Head(s) = "/" THEN <<cur>> \o Segments(Tail(s), <<>>)
  ELSE Segments(Tail(s), Append(cur, Head(s)))

RECURSIVE Normalize(_, _)
Normalize(segs, acc) ==
  IF segs = <<>> THEN acc
  ELSE LET h == Head(segs) IN
       IF h = <<>> \/ h = <<".">> THEN Normalize(Tail(segs), acc)
       ELSE IF h = <<".", ".">>
            THEN Normalize(Tail(segs),
                           IF acc = <<>> THEN acc ELSE SubSeq(acc, 1, Len(acc) - 1))
       ELSE Normalize(Tail(segs), Append(acc, h))

\* path.join(a, b): join with "/" and normalise
PathJoin(a, b) == Normalize(Segments(a \o <<"/">> \o b, <<>>), <<>>)

\* path.join(MEMORY_DIR, `memory_${userId}.json`)
FilePath(userId) ==
  PathJoin(MEMORY_DIR,
           <<"m","e","m","o","r","y","_">> \o TemplateString(userId)
             \o <<".","j","s","o","n">>)

\* content of a file that is not JSON text: writeFileSync opens with flag "w",
\* which empties the file, so a write that fails after the open (disk full)
\* leaves it empty or cut short
Unparseable ==
  [userId |-> Null, lastProject |-> Null, lastTask |-> Null,
   conversation |-> <<>>]

\* loadMemory without the try/catch around the read and the parse
loadMemoryNoCatch(st, userId, readOk) ==
  IF FilePath(userId) \in DOMAIN st THEN st[FilePath(userId)]
  ELSE [userId |-> userId, lastProject |-> Null, lastTask |-> Null,
        conversation |-> <<[role |-> "system", content |-> <<"You are **MaxMovies AI** ...">>]>>]

\* loadMemory: st is the content of the memory directory (file path -> the
\* record its JSON text encodes), readOk whether readFileSync returns
\* without throwing; JSON.parse throws on a file that is not JSON text
loadMemory(st, userId, readOk) ==
  IF FilePath(userId) \in DOMAIN st /\ readOk /\ st[FilePath(userId)] # Unparseable
  THEN st[FilePath(userId)]
  ELSE FreshMemory(userId)

\* why loadMemory returned what it did
loadOutcome(st, userId, readOk) ==
  IF FilePath(userId) \notin DOMAIN st THEN "absent"
  ELSE IF ~readOk THEN "unreadable"
  ELSE IF st[FilePath(userId)] = Unparseable THEN "malformed"
  ELSE "file"

\* the directory st with content written to file f
WithFile(st, f, content) ==
  [g \in DOMAIN st \cup {f} |-> IF g = f THEN content ELSE st[g]]

\* what writeFileSync can do: write the text ("ok"), throw before the file is
\* opened ("failed": no directory, no permission), throw after it was opened
\* and emptied ("truncated": no space left)
WriteOutcomes == {"ok", "failed", "truncated"}

\* saveMemory opening the file with flag "wx": an existing file is kept
saveMemoryExclusive(st, userId, memory, write) ==
  IF write = "ok" /\ FilePath(userId) \notin DOMAIN st
  THEN WithFile(st, FilePath(userId), memory)
  ELSE st

\* saveMemory: the directory after writeFileSync; what it throws is caught
saveMemory(st, userId, memory, write) ==
  IF write = "ok" THEN WithFile(st, FilePath(userId), memory)
  ELSE IF write = "truncated" THEN WithFile(st, FilePath(userId), Unparseable)
  ELSE st

----------------------------------------------------------------------------
(* the handler *)

VARIABLES
  store,          \* memory directory: file path -> stored record
  version,        \* file path -> number of completed writes of that file
  hfToken,        \* process.env.HF_TOKEN is set
  budget,         \* requests still to arrive
  pc,             \* per handler invocation: "idle", "awaiting", "done"
  input,          \* req: [method, body]
  memory,         \* the `memory` local
  messages,       \* the `messages` local as handed to axios.post
  hfCalls,        \* number of axios.post calls made
  res,            \* the res.status(..).json(..) / .end() calls made, in order
  saved,          \* the records handed to saveMemory, in order
  loaded,         \* the record loadMemory returned
  loadedVersion,  \* version of the file when loadMemory ran
  savedVersion,   \* version of the file right after this invocation's write
  loadedFrom,     \* how loadMemory went: "file", "absent", "unreadable", "malformed"
  settled,        \* what the axios.post promise settled with
  text,           \* an argument for detectLanguage
  lang            \* what detectLanguage returned for text

vars == <<store, version, hfToken, budget, pc, input, memory, messages,
          hfCalls, res, saved, loaded, loadedVersion, savedVersion,
          loadedFrom, settled, text, lang>>

MaxInflight == 2
Slots == 1..MaxInflight

Body(kind, prompt, project, userId) ==
  [kind |-> kind, prompt |-> prompt, project |-> project, userId |-> userId]

NoBody == Body("none", Undefined, Undefined, Undefined)

Resp(status, fields, reply) ==
  [status |-> status, fields |-> fields, reply |-> reply]

\* const { userId = "default" } = body
userIdOf(b) ==
  IF b.userId = Undefined THEN Str(<<"d","e","f","a","u","l","t">>) ELSE b.userId

VersionOf(f) == IF f \in DOMAIN version THEN version[f] ELSE 0

\* the axios.post promise: not settled, resolved with a body whose
\* data?.choices?.[0]?.message?.content is `content`, or rejected with `err`
Pending ==
  [kind |-> "pending", content |-> Undefined,
   err |-> [responseMessage |-> Undefined, message |-> Undefined]]
Resolved(content) ==
  [kind |-> "resolved", content |-> content,
   err |-> [responseMessage |-> Undefined, message |-> Undefined]]
Rejected(err) == [kind |-> "rejected", content |-> Undefined, err |-> err]

InitState ==
  /\ store = [f \in {} |-> NoRecord]
  /\ version = [f \in {} |-> 0]
  /\ hfToken \in BOOLEAN
  /\ pc = [r \in Slots |-> "idle"]
  /\ input = [r \in Slots |-> [method |-> "NONE", body |-> NoBody]]
  /\ memory = [r \in Slots |-> NoRecord]
  /\ messages = [r \in Slots |-> <<>>]
  /\ hfCalls = [r \in Slots |-> 0]
  /\ res = [r \in Slots |-> <<>>]
  /\ saved = [r \in Slots |-> <<>>]
  /\ loaded = [r \in Slots |-> NoRecord]
  /\ loadedVersion = [r \in Slots |-> 0]
  /\ savedVersion = [r \in Slots |-> 0]
  /\ loadedFrom = [r \in Slots |-> "none"]
  /\ settled = [r \in Slots |-> Pending]

\* a request arrives and the runtime invokes the handler with fresh locals
Arrive(r, method, b) ==
  /\ budget > 0
  /\ pc[r] # "awaiting"
  /\ \A q \in Slots : q < r => pc[q] = "awaiting"
  /\ budget' = budget - 1
  /\ input' = [input EXCEPT ![r] = [method |-> method, body |-> b]]
  /\ settled' = [settled EXCEPT ![r] = Pending]
  /\ UNCHANGED <<text, lang>>

\* the locals of an invocation that returns before loadMemory
NoLocals(r) ==
  /\ memory' = [memory EXCEPT ![r] = NoRecord]
  /\ messages' = [messages EXCEPT ![r] = <<>>]
  /\ hfCalls' = [hfCalls EXCEPT ![r] = 0]
  /\ saved' = [saved EXCEPT ![r] = <<>>]
  /\ loaded' = [loaded EXCEPT ![r] = NoRecord]
  /\ loadedVersion' = [loadedVersion EXCEPT ![r] = 0]
  /\ savedVersion' = [savedVersion EXCEPT ![r] = 0]
  /\ loadedFrom' = [loadedFrom EXCEPT ![r] = "none"]

Finish(r, responses) ==
  /\ pc' = [pc EXCEPT ![r] = "done"]
  /\ res' = [res EXCEPT ![r] = responses]

\* line 104
Options(r) ==
  /\ Arrive(r, "OPTIONS", NoBody)
  /\ Finish(r, <<Resp(200, {}, <<>>)>>)
  /\ NoLocals(r)
  /\ UNCHANGED <<store, version, hfToken>>

\* lines 105-116
Get(r) ==
  /\ Arrive(r, "GET", NoBody)
  /\ Finish(r, <<Resp(200, {"status", "service", "version", "endpoints"}, <<>>)>>)
  /\ NoLocals(r)
  /\ UNCHANGED <<store, version, hfToken>>

\* line 118
MethodNotAllowed(r, method) ==
  /\ method \notin {"OPTIONS", "GET", "POST"}
  /\ Arrive(r, method, NoBody)
  /\ Finish(r, <<Resp(405, {"error", "allowed"}, <<>>)>>)
  /\ NoLocals(r)
  /\ UNCHANGED <<store, version, hfToken>>

\* lines 122-125 throw: JSON.parse of a malformed string body, destructuring
\* of an absent body, or prompt.trim on a truthy value that is not a string
BodyThrows(b) ==
  \/ b.kind \in {"badjson", "none"}
  \/ (Truthy(b.prompt) /\ ~IsString(b.prompt))

\* line 125: !prompt || prompt.trim() === ''
Blank(prompt) == ~Truthy(prompt) \/ Trim(prompt.v) = <<>>

ServerError == Resp(500, {"error", "details"}, <<>>)

\* lines 120-125 throw, lines 185-188 answer
PostBodyThrows(r, b) ==
  /\ BodyThrows(b)
  /\ Arrive(r, "POST", b)
  /\ Finish(r, <<ServerError>>)
  /\ NoLocals(r)
  /\ UNCHANGED <<store, version, hfToken>>

\* line 125
PostBlank(r, b) ==
  /\ ~BodyThrows(b)
  /\ Blank(b.prompt)
  /\ Arrive(r, "POST", b)
  /\ Finish(r, <<Resp(400, {"error"}, <<>>)>>)
  /\ NoLocals(r)
  /\ UNCHANGED <<store, version, hfToken>>

\* line 143 on a conversation whose element 0 is the object it mutates
AddInstruction(conv, instr) ==
  IF conv # <<>> /\ conv[1].role = "system"
  THEN [conv EXCEPT ![1].content = @ \o <<"\n", "\n">> \o instr]
  ELSE conv

\* lines 129-131
WithUserTurn(rec, b) ==
  [rec EXCEPT !.lastProject = IF Truthy(b.project) THEN b.project ELSE @,
              !.lastTask = b.prompt,
              !.conversation = Append(@, UserTurn(b.prompt.v))]

\* lines 134-143, the `messages` local: the spread copies the array, so
\* messages[0] is the very object memory.conversation[0] and line 143 appends
\* to the content of that one object
Messages(rec, b) ==
  AddInstruction(rec.conversation, languageInstruction(detectLanguage(b.prompt)))

\* the `memory` local after line 143: its element 0 is the object line 143
\* appended to
MemoryAfterInstruction(rec, b) ==
  [rec EXCEPT !.conversation =
     AddInstruction(@, languageInstruction(detectLanguage(b.prompt)))]

\* lines 128-143
Assemble(r, b, readOk) ==
  LET rec == loadMemory(store, userIdOf(b), readOk)
      withTurn == WithUserTurn(rec, b)
  IN  /\ loaded' = [loaded EXCEPT ![r] = rec]
      /\ loadedVersion' = [loadedVersion EXCEPT ![r] = VersionOf(FilePath(userIdOf(b)))]
      /\ loadedFrom' = [loadedFrom EXCEPT ![r] = loadOutcome(store, userIdOf(b), readOk)]
      /\ memory' = [memory EXCEPT ![r] = MemoryAfterInstruction(withTurn, b)]
      /\ messages' = [messages EXCEPT ![r] = Messages(withTurn, b)]
      /\ saved' = [saved EXCEPT ![r] = <<>>]
      /\ savedVersion' = [savedVersion EXCEPT ![r] = 0]

\* PostNoToken with the record saved right after the user turn was pushed
PostNoTokenSaves(r, b, readOk) ==
  /\ ~BodyThrows(b)
  /\ ~Blank(b.prompt)
  /\ ~hfToken
  /\ Arrive(r, "POST", b)
  /\ Assemble(r, b, readOk)
  /\ hfCalls' = [hfCalls EXCEPT ![r] = 0]
  /\ Finish(r, <<Resp(500, {"error", "message"}, <<>>)>>)
  /\ store' = saveMemory(store, userIdOf(b),
                         WithUserTurn(loadMemory(store, userIdOf(b), readOk), b), "ok")
  /\ UNCHANGED <<version, hfToken>>

\* lines 128-146 with HF_TOKEN unset
PostNoToken(r, b, readOk) ==
  /\ ~BodyThrows(b)
  /\ ~Blank(b.prompt)
  /\ ~hfToken
  /\ Arrive(r, "POST", b)
  /\ Assemble(r, b, readOk)
  /\ hfCalls' = [hfCalls EXCEPT ![r] = 0]
  /\ Finish(r, <<Resp(500, {"error", "message"}, <<>>)>>)
  /\ UNCHANGED <<store, version, hfToken>>

\* lines 128-154: the handler suspends at the await of axios.post
PostCall(r, b, readOk) ==
  /\ ~BodyThrows(b)
  /\ ~Blank(b.prompt)
  /\ hfToken
  /\ Arrive(r, "POST", b)
  /\ Assemble(r, b, readOk)
  /\ hfCalls' = [hfCalls EXCEPT ![r] = 1]
  /\ pc' = [pc EXCEPT ![r] = "awaiting"]
  /\ res' = [res EXCEPT ![r] = <<>>]
  /\ UNCHANGED <<store, version, hfToken>>

----------------------------------------------------------------------------
(* the handler resumes when the axios.post promise settles *)

\* an axios error: err.response?.data?.error?.message and err.message
Err(responseMessage, message) ==
  [responseMessage |-> responseMessage, message |-> message]

\* line 156
errMsg(err) ==
  IF Truthy(err.responseMessage) THEN err.responseMessage ELSE err.message

InsufficientQuota ==
  <<"i","n","s","u","f","f","i","c","i","e","n","t"," ","q","u","o","t","a">>

\* line 157
IsQuota(err) ==
  IsString(errMsg(err)) /\ Includes(ToLowerCase(errMsg(err).v), InsufficientQuota)

WriteFile(f) ==
  [g \in DOMAIN version \cup {f} |-> IF g = f THEN VersionOf(f) + 1 ELSE version[g]]

\* Exchange with a saveMemory that lets the error of writeFileSync escape to
\* the catch of line 185
ExchangeSaveThrows(r, content, write, before, after) ==
  LET cleanText == Sanitize(assistantReply(content).v)
      m == [memory[r] EXCEPT
              !.conversation = Cap(Append(@, AssistantTurn(cleanText)))]
      uid == userIdOf(input[r].body)
  IN  /\ memory' = [memory EXCEPT ![r] = m]
      /\ saved' = [saved EXCEPT ![r] = Append(@, m)]
      /\ store' = saveMemory(store, uid, m, write)
      /\ version' = IF write = "failed" THEN version ELSE WriteFile(FilePath(uid))
      /\ savedVersion' = [savedVersion EXCEPT ![r] =
                            IF write = "ok" THEN VersionOf(FilePath(uid)) + 1 ELSE 0]
      /\ Finish(r, IF write = "ok"
                   THEN before \o <<Resp(200, {"reply", "memory"}, cleanText)>> \o after
                   ELSE before \o <<Resp(500, {"error", "details"}, <<>>)>>)

\* lines 163-183 with `content` the value of
\* hfResponse.data?.choices?.[0]?.message?.content; `before` are the responses
\* already sent, `after` those sent once line 176 has run
Exchange(r, content, write, before, after) ==
  LET cleanText == Sanitize(assistantReply(content).v)
      m == [memory[r] EXCEPT
              !.conversation = Cap(Append(@, AssistantTurn(cleanText)))]
      uid == userIdOf(input[r].body)
  IN  /\ memory' = [memory EXCEPT ![r] = m]
      /\ saved' = [saved EXCEPT ![r] = Append(@, m)]
      /\ store' = saveMemory(store, uid, m, write)
      /\ version' = IF write = "failed" THEN version ELSE WriteFile(FilePath(uid))
      /\ savedVersion' = [savedVersion EXCEPT ![r] =
                            IF write = "ok" THEN VersionOf(FilePath(uid)) + 1 ELSE 0]
      /\ Finish(r, before \o <<Resp(200, {"reply", "memory"}, cleanText)>> \o after)

\* lines 163-183: the call returned a body
HfReply(r, content, write) ==
  /\ pc[r] = "awaiting"
  /\ IsString(assistantReply(content))
  /\ settled' = [settled EXCEPT ![r] = Resolved(content)]
  /\ Exchange(r, content, write, <<>>, <<>>)
  /\ UNCHANGED <<hfToken, budget, input, messages, hfCalls, loaded, loadedVersion,
                 loadedFrom, text, lang>>

\* line 165 throws (content is truthy and has no replace method), 185-188 answer
HfBadReply(r, content) ==
  /\ pc[r] = "awaiting"
  /\ ~IsString(assistantReply(content))
  /\ settled' = [settled EXCEPT ![r] = Resolved(content)]
  /\ Finish(r, <<ServerError>>)
  /\ UNCHANGED <<store, version, hfToken, budget, input, memory, messages,
                 hfCalls, saved, loaded, loadedVersion, savedVersion,
                 loadedFrom, text, lang>>

PaymentRequired == Resp(402, {"error", "message"}, <<>>)

\* lines 155-159 where res.json returns res (the Vercel and Express helpers):
\* the catch callback's value becomes hfResponse, whose `data` is undefined, so
\* lines 163-176 run; line 176 writes to the finished response and throws,
\* and line 187 writes once more
HfQuotaContinues(r, err, write) ==
  /\ pc[r] = "awaiting"
  /\ IsQuota(err)
  /\ settled' = [settled EXCEPT ![r] = Rejected(err)]
  /\ Exchange(r, Undefined, write, <<PaymentRequired>>, <<ServerError>>)
  /\ UNCHANGED <<hfToken, budget, input, messages, hfCalls, loaded, loadedVersion,
                 loadedFrom, text, lang>>

\* lines 155-159 where res.json returns undefined (the Next.js helper):
\* line 163 reads `data` of undefined and throws, line 187 writes once more
HfQuotaThrows(r, err) ==
  /\ pc[r] = "awaiting"
  /\ IsQuota(err)
  /\ settled' = [settled EXCEPT ![r] = Rejected(err)]
  /\ Finish(r, <<PaymentRequired, ServerError>>)
  /\ UNCHANGED <<store, version, hfToken, budget, input, memory, messages,
                 hfCalls, saved, loaded, loadedVersion, savedVersion,
                 loadedFrom, text, lang>>

\* HfFailure with one more attempt before giving up
HfFailureRetries(r, err) ==
  /\ pc[r] = "awaiting"
  /\ ~IsQuota(err)
  /\ settled' = [settled EXCEPT ![r] = Rejected(err)]
  /\ IF hfCalls[r] < 2
       THEN /\ hfCalls' = [hfCalls EXCEPT ![r] = @ + 1]
            /\ UNCHANGED <<pc, res>>
       ELSE /\ Finish(r, <<ServerError>>)
            /\ UNCHANGED hfCalls
  /\ UNCHANGED <<store, version, hfToken, budget, input, memory, messages,
                 saved, loaded, loadedVersion, savedVersion,
                 loadedFrom, text, lang>>

\* line 160 rethrows (or line 157 throws), lines 185-188 answer
HfFailure(r, err) ==
  /\ pc[r] = "awaiting"
  /\ ~IsQuota(err)
  /\ settled' = [settled EXCEPT ![r] = Rejected(err)]
  /\ Finish(r, <<ServerError>>)
  /\ UNCHANGED <<store, version, hfToken, budget, input, memory, messages,
                 hfCalls, saved, loaded, loadedVersion, savedVersion,
                 loadedFrom, text, lang>>

----------------------------------------------------------------------------
(* requests the environment sends, bodies the collaborator returns *)

Hello == <<"h","e","l","l","o">>
Poa == <<"P","o","a">>
SasaPoa == <<"s","a","s","a"," ","p","o","a">>
Spaces == <<" "," ">>
U1 == <<"u","1">>
ProjectX == <<"x">>

\* another userId that path.join resolves to the file of U1
Alias == <<"x","/",".",".","/","m","e","m","o","r","y","_","u","1">>

Methods == {"PUT"}

ValidBodies ==
  { Body("object", Str(Hello), Undefined, Undefined),
    Body("object", Str(Poa), Str(ProjectX), Str(U1)),
    Body("json", Str(SasaPoa), Undefined, Str(U1)),
    Body("object", Str(Hello), Undefined, Str(Alias)) }

InvalidBodies ==
  { Body("none", Undefined, Undefined, Undefined),
    Body("badjson", Undefined, Undefined, Undefined),
    Body("object", Num(<<"4","2">>), Undefined, Undefined),
    Body("object", Undefined, Undefined, Str(U1)),
    Body("object", Str(<<>>), Undefined, Undefined),
    Body("json", Str(Spaces), Undefined, Str(U1)) }

Bodies == ValidBodies \cup InvalidBodies

ReplyContents ==
  { Str(<<"o","k">>),
    Str(<<"A","s"," ","a","n"," ","A","I"," ","o","k">>),
    Str(<<>>),
    Undefined,
    Num(<<"4","2">>) }

Errors ==
  { Err(Str(<<"I","n","s","u","f","f","i","c","i","e","n","t"," ","Q","u","o","t","a">>),
        Str(<<"4","0","2">>)),
    Err(Undefined, Str(<<"t","i","m","e","o","u","t">>)) }

\* one step of the invocation in slot r, its inputs drawn from the given sets
Step(r, bodies, contents, errors, reads, writes) ==
  \/ Options(r)
  \/ Get(r)
  \/ \E method \in Methods : MethodNotAllowed(r, method)
  \/ \E b \in bodies : PostBodyThrows(r, b)
  \/ \E b \in bodies : PostBlank(r, b)
  \/ \E b \in bodies, readOk \in reads : PostNoToken(r, b, readOk)
  \/ \E b \in bodies, readOk \in reads : PostCall(r, b, readOk)
  \/ \E content \in contents, write \in writes : HfReply(r, content, write)
  \/ \E content \in contents : HfBadReply(r, content)
  \/ \E err \in errors, write \in writes : HfQuotaContinues(r, err, write)
  \/ \E err \in errors : HfQuotaThrows(r, err)
  \/ \E err \in errors : HfFailure(r, err)

MaxRequests == 2

Unclassified == "unclassified"

Init ==
  /\ InitState
  /\ budget = MaxRequests
  /\ text = Undefined
  /\ lang = Unclassified

Next == \E r \in Slots : Step(r, Bodies, ReplyContents, Errors, BOOLEAN, WriteOutcomes)

Spec == Init /\ [][Next]_vars

----------------------------------------------------------------------------
(* long runs of one user: enough exchanges to pass the 20-turn cap twice,  *)
(* with storage reads and writes that succeed                              *)

LongBodies ==
  { Body("object", Str(Hello), Undefined, Undefined),
    Body("object", Str(<<>>), Undefined, Undefined),
    Body("none", Undefined, Undefined, Undefined) }

LongContents == { Str(<<"o","k">>), Num(<<"4","2">>) }

MaxLongRequests == 11

InitLong ==
  /\ InitState
  /\ budget = MaxLongRequests
  /\ text = Undefined
  /\ lang = Unclassified

\* the requests of a long run arrive one after the other
NextLong == Step(1, LongBodies, LongContents, Errors, {TRUE}, {"ok"})

SpecLong == InitLong /\ [][NextLong]_vars

----------------------------------------------------------------------------
(* detectLanguage on its own: a text typed piece by piece, then classified *)

\* the pieces a text is typed from
Fragments ==
  { <<"s","a">>, <<"w","a">>, <<"P","o","a">>, <<"B","r","o">>,
    <<"v","i","b","e">>, <<"h","i">>, <<" ">> }

\* the arguments a text starts from
Arguments == { Str(<<>>), Undefined, Null, Num(<<"4","2">>) }

MaxTextLen == 7

InitClassify ==
  /\ InitState
  /\ budget = 0
  /\ text \in Arguments
  /\ lang = Unclassified

Type(w) ==
  /\ IsString(text)
  /\ Len(text.v) + Len(w) <= MaxTextLen
  /\ text' = Str(text.v \o w)
  /\ lang' = Unclassified
  /\ UNCHANGED <<store, version, hfToken, budget, pc, input, memory, messages,
                 hfCalls, res, saved, loaded, loadedVersion, savedVersion,
                 loadedFrom, settled>>

\* line 134
Classify ==
  /\ lang = Unclassified
  /\ lang' = detectLanguage(text)
  /\ UNCHANGED <<store, version, hfToken, budget, pc, input, memory, messages,
                 hfCalls, res, saved, loaded, loadedVersion, savedVersion,
                 loadedFrom, settled, text>>

NextClassify ==
  \/ \E w \in Fragments : Type(w)
  \/ Classify

SpecClassify == InitClassify /\ [][NextClassify]_vars

----------------------------------------------------------------------------
(* vocabulary of the properties *)

\* the invocation in slot r has returned
Done(r) == pc[r] = "done"

\* the files that hold a record
Records == {f \in DOMAIN store : store[f] # Unparseable}

\* the file the invocation in slot r loads from and saves to
FileOf(r) == FilePath(userIdOf(input[r].body))

\* the invocation in slot r sent the 200 envelope and nothing else
RepliedOnce(r) ==
  /\ Done(r)
  /\ Len(res[r]) = 1
  /\ res[r][1].status = 200
  /\ "reply" \in res[r][1].fields

\* the invocation in slot r wrote its record to disk
Wrote(r) == savedVersion[r] > 0

\* the turns of a and b after element 0 are the same
SameTurnsAfterSystem(a, b) ==
  /\ Len(a) = Len(b)
  /\ \A i \in 2..Len(a) : a[i] = b[i]

HasTurn(conv, turn) == \E i \in 1..Len(conv) : conv[i] = turn

\* the step taken is the end of the invocation in slot r
Ends(r) == pc'[r] = "done" /\ <<pc[r], budget>> # <<pc'[r], budget'>>

----------------------------------------------------------------------------
(* C1 *)

\* C1: the record handed to saveMemory and the stored record always carry
\* the seeded system content; no exchange changes element 0's content.
C1_SystemContentNeverChanges ==
  /\ \A r \in Slots : \A i \in 1..Len(saved[r]) :
       saved[r][i].conversation[1].content = BasePrompt
  /\ \A f \in Records : store[f].conversation[1].content = BasePrompt

----------------------------------------------------------------------------
(* C2 *)

\* C2: once the 402 response is sent for quota exhaustion the handler stops:
\* it is the only response, no assistant turn is appended and nothing is
\* handed to saveMemory.
C2_QuotaStopsTheHandler ==
  \A r \in Slots :
    (Done(r) /\ res[r] # <<>> /\ res[r][1].status = 402) =>
      /\ Len(res[r]) = 1
      /\ saved[r] = <<>>
      /\ memory[r].conversation[Len(memory[r].conversation)].role = "user"

----------------------------------------------------------------------------
(* C3 *)

\* C3: every POST ends with exactly one response sent, the 200 envelope with
\* a reply or a body with an error field.
C3_ExactlyOneResponse ==
  \A r \in Slots :
    (Done(r) /\ input[r].method = "POST") =>
      /\ Len(res[r]) = 1
      /\ \/ (res[r][1].status = 200 /\ "reply" \in res[r][1].fields)
         \/ "error" \in res[r][1].fields

----------------------------------------------------------------------------
(* C4 *)

\* C4: a request that is not a POST, or whose response is an error, leaves
\* every stored record as it was.
C4_ErrorsLeaveStorageAlone ==
  [][\A r \in Slots :
       (Ends(r) /\ (input'[r].method # "POST" \/ res'[r][1].status # 200))
         => store' = store]_vars

----------------------------------------------------------------------------
(* C5 *)

\* two invocations for the same userId loaded the same record of the same
\* version of the file, both replied 200 and both wrote, second after first,
\* and nothing was written after second
LostUpdate(first, second) ==
  /\ first # second
  /\ RepliedOnce(first) /\ RepliedOnce(second)
  /\ userIdOf(input[first].body) = userIdOf(input[second].body)
  /\ loaded[first] = loaded[second]
  /\ loadedVersion[first] = loadedVersion[second]
  /\ Wrote(first) /\ Wrote(second)
  /\ savedVersion[first] < savedVersion[second]
  /\ version[FileOf(second)] = savedVersion[second]

\* C5: after a lost update the stored record is the one the last writer
\* saved: what both loaded plus the last writer's user and assistant turn;
\* the turns of the other request are not in it.
C5_LastWriteWins ==
  \A first, second \in Slots :
    LostUpdate(first, second) =>
      LET conv == store[FileOf(second)].conversation
          mine == <<UserTurn(input[second].body.prompt.v),
                    AssistantTurn(res[second][1].reply)>>
          other == UserTurn(input[first].body.prompt.v)
      IN  /\ store[FileOf(second)] = saved[second][1]
          /\ SameTurnsAfterSystem(conv, Cap(loaded[second].conversation \o mine))
          /\ (other # mine[1] /\ ~HasTurn(loaded[second].conversation, other))
               => ~HasTurn(conv, other)

\* C5 witness: a lost update happened and the first writer's user turn is
\* gone from the stored record
C5_Witness ==
  \E first, second \in Slots :
    /\ LostUpdate(first, second)
    /\ ~HasTurn(store[FileOf(second)].conversation,
                UserTurn(input[first].body.prompt.v))
    /\ HasTurn(saved[first][1].conversation,
               UserTurn(input[first].body.prompt.v))

----------------------------------------------------------------------------
(* C6 *)

\* C6: every stored conversation has between 1 and 20 turns.
C6_StoredLengthBounded ==
  \A f \in Records :
    /\ Len(store[f].conversation) >= 1
    /\ Len(store[f].conversation) <= 20

\* C6 witness: an invocation loaded a full conversation of 20 turns, added
\* its two turns and wrote the record now stored, which has 20 turns
C6_Witness ==
  \E r \in Slots :
    /\ RepliedOnce(r) /\ Wrote(r)
    /\ Len(loaded[r].conversation) = 20
    /\ store[FileOf(r)] = saved[r][1]
    /\ Len(store[FileOf(r)].conversation) = 20

----------------------------------------------------------------------------
(* C7 *)

\* C7: element 0 has role system in every record loadMemory returned, in
\* every in-memory record of an invocation and in every stored record.
C7_ElementZeroIsSystem ==
  /\ \A f \in Records : store[f].conversation[1].role = "system"
  /\ \A r \in Slots :
       /\ loaded[r] # NoRecord => loaded[r].conversation[1].role = "system"
       /\ memory[r] # NoRecord => memory[r].conversation[1].role = "system"
       /\ \A i \in 1..Len(saved[r]) : saved[r][i].conversation[1].role = "system"

\* C7 witness: an invocation loaded 19 turns, its 21 turns were truncated and
\* the truncated record, stored, starts with the system turn
C7_Witness ==
  \E r \in Slots :
    /\ Done(r) /\ Wrote(r)
    /\ Len(loaded[r].conversation) = 19
    /\ Len(memory[r].conversation) = 20
    /\ memory[r].conversation[1].role = "system"
    /\ memory[r].conversation[2].role # "system"
    /\ store[FileOf(r)] = memory[r]

----------------------------------------------------------------------------
(* C8 *)

\* the invocation in slot r read its file as it stood (or found none), wrote
\* it, and no other write of that file happened since it loaded
AloneOnItsFile(r) ==
  /\ RepliedOnce(r) /\ Wrote(r)
  /\ loadedVersion[r] = 0 \/ Len(loaded[r].conversation) > 1
  /\ savedVersion[r] = loadedVersion[r] + 1
  /\ version[FileOf(r)] = savedVersion[r]

\* C8: one successful exchange without a concurrent request leaves the stored
\* conversation equal to the previous one followed by the user turn and the
\* assistant turn, capped; its length is min(previous length + 2, 20).
C8_ExchangeAppendsTwoTurns ==
  \A r \in Slots :
    AloneOnItsFile(r) =>
      LET before == loaded[r].conversation
          after == store[FileOf(r)].conversation
          grown == before \o <<UserTurn(input[r].body.prompt.v),
                               AssistantTurn(res[r][1].reply)>>
      IN  /\ after = (IF Len(grown) > 20
                      THEN <<grown[1]>> \o SubSeq(grown, Len(grown) - 18, Len(grown))
                      ELSE grown)
          /\ Len(after) = (IF Len(before) + 2 < 20 THEN Len(before) + 2 ELSE 20)

----------------------------------------------------------------------------
(* C9 *)

\* the reply of the 200 envelope among the responses rs
ReplyIn(rs) ==
  LET i == CHOOSE i \in 1..Len(rs) : rs[i].status = 200 IN rs[i].reply

\* the step taken runs lines 163-174 in slot r
Exchanges(r) == pc[r] = "awaiting" /\ Len(saved'[r]) = 1

\* C9: the cap step turns a conversation of more than 20 turns into element 0
\* followed by the 19 most recent turns in order, leaves a shorter one as it
\* is, and applied again changes nothing.
C9_CapStep ==
  [][\A r \in Slots :
       Exchanges(r) =>
         LET pre == Append(memory[r].conversation, AssistantTurn(ReplyIn(res'[r])))
             post == memory'[r].conversation
         IN  /\ Len(pre) > 20 =>
                  /\ Len(post) = 20
                  /\ post[1] = pre[1]
                  /\ \A i \in 1..19 : post[1 + i] = pre[Len(pre) - 19 + i]
             /\ Len(pre) <= 20 => post = pre
             /\ Cap(post) = post]_vars

\* C9 witness: a conversation of 22 turns was capped: the record handed to
\* saveMemory has 20 turns and its second turn is the fourth of the loaded one
C9_Witness ==
  \E r \in Slots :
    /\ Done(r) /\ saved[r] # <<>>
    /\ Len(loaded[r].conversation) = 20
    /\ Len(saved[r][1].conversation) = 20
    /\ saved[r][1].conversation[2] = loaded[r].conversation[4]
    /\ saved[r][1].conversation[20].role = "assistant"

----------------------------------------------------------------------------
(* C10 *)

\* C10: the system turn sent to the collaborator is the seeded content
\* followed by exactly one instruction, the one for the current prompt.
C10_OneInstructionPerExchange ==
  \A r \in Slots :
    messages[r] # <<>> =>
      messages[r][1].content =
        BasePrompt \o <<"\n", "\n">>
          \o languageInstruction(detectLanguage(input[r].body.prompt))

----------------------------------------------------------------------------
(* C11 *)

\* the body carries no prompt or one that is blank after trimming; a request
\* without a body carries no prompt
MissingOrBlank(b) ==
  \/ b.kind = "none"
  \/ /\ b.kind \in {"object", "json"}
     /\ \/ b.prompt = Undefined
        \/ (IsString(b.prompt) /\ Trim(b.prompt.v) = <<>>)

\* C11: every POST whose prompt is missing or blank, a POST without a body
\* included, is answered 400 {error}, calls no collaborator and leaves storage
\* unchanged.
C11_BlankPromptIs400 ==
  [][\A r \in Slots :
       (Ends(r) /\ input'[r].method = "POST" /\ MissingOrBlank(input'[r].body))
         => /\ res'[r] = <<[status |-> 400, fields |-> {"error"}, reply |-> <<>>]>>
            /\ hfCalls'[r] = 0
            /\ store' = store]_vars

----------------------------------------------------------------------------
(* C12 *)

\* the body parses and carries a prompt that is a string and not blank
ValidPrompt(b) ==
  /\ b.kind \in {"object", "json"}
  /\ IsString(b.prompt)
  /\ Trim(b.prompt.v) # <<>>

\* C12: a POST with a valid prompt made while HF_TOKEN is unset is answered
\* 500 {error, message}; no collaborator call is made and storage is
\* unchanged, although the in-memory record got the user turn.
C12_MissingCredentialIs500 ==
  [][\A r \in Slots :
       (Ends(r) /\ pc[r] # "awaiting" /\ ~hfToken
          /\ input'[r].method = "POST" /\ ValidPrompt(input'[r].body))
         => /\ res'[r] = <<[status |-> 500, fields |-> {"error", "message"},
                            reply |-> <<>>]>>
            /\ hfCalls'[r] = 0
            /\ store' = store
            /\ memory'[r].conversation[Len(memory'[r].conversation)] =
                 [role |-> "user", content |-> input'[r].body.prompt.v]]_vars

\* C12 witness: HF_TOKEN is unset, a POST with a valid prompt was answered
\* 500 {error, message} and its in-memory record ends with the user turn
C12_Witness ==
  \E r \in Slots :
    /\ Done(r) /\ ~hfToken
    /\ input[r].method = "POST" /\ ValidPrompt(input[r].body)
    /\ Len(res[r]) = 1 /\ res[r][1].status = 500
    /\ "message" \in res[r][1].fields
    /\ hfCalls[r] = 0
    /\ memory[r].conversation[Len(memory[r].conversation)].role = "user"
    /\ FileOf(r) \notin DOMAIN store

----------------------------------------------------------------------------
(* C13 *)

\* loadMemory found no file, could not read it or could not parse it
LoadFellBack(r) == loadedFrom[r] \in {"absent", "unreadable", "malformed"}

\* C13: when the stored record is absent, unreadable or malformed, loadMemory
\* returns a fresh record for that userId and the request goes on as for a
\* new user: it sends the seeded system turn with one instruction and the
\* user turn, and a reply gives a stored conversation of three turns.
C13_LoadFallsBackToFresh ==
  \A r \in Slots :
    LoadFellBack(r) =>
      /\ loaded[r] = [userId |-> userIdOf(input[r].body),
                      lastProject |-> Null, lastTask |-> Null,
                      conversation |->
                        <<[role |-> "system", content |-> BasePrompt]>>]
      /\ hfToken => /\ hfCalls[r] = 1
                    /\ Len(messages[r]) = 2
                    /\ messages[r][1].role = "system"
                    /\ messages[r][2] =
                         [role |-> "user", content |-> input[r].body.prompt.v]
      /\ (Done(r) /\ settled[r].kind = "resolved" /\ IsString(settled[r].content))
           => /\ RepliedOnce(r)
              /\ Len(saved[r][1].conversation) = 3
              /\ saved[r][1].userId = userIdOf(input[r].body)

\* C13 witness: an invocation found a file that is not JSON text, went on
\* with a fresh record and replied 200
C13_Witness ==
  \E r \in Slots :
    /\ loadedFrom[r] = "malformed"
    /\ RepliedOnce(r)
    /\ Len(loaded[r].conversation) = 1
    /\ Len(saved[r][1].conversation) = 3

----------------------------------------------------------------------------
(* C14 *)

\* the step taken runs lines 163-183 for a body the collaborator returned,
\* and writeFileSync throws in it
WriteFails(r) ==
  /\ Exchanges(r)
  /\ settled'[r].kind = "resolved"
  /\ savedVersion'[r] = 0

\* the 200 envelope carrying the assistant turn just appended
ReplyEnvelope(r) ==
  [status |-> 200, fields |-> {"reply", "memory"},
   reply |-> memory'[r].conversation[Len(memory'[r].conversation)].content]

\* C14 as stated: a failed write does not abort the response, the 200
\* envelope with the reply is the only response, and storage keeps its
\* previous value.
C14_FailedWriteKeepsStorage ==
  [][\A r \in Slots :
       WriteFails(r) => (res'[r] = <<ReplyEnvelope(r)>> /\ store' = store)]_vars

\* C14 amended: a failed write does not abort the response and the 200
\* envelope with the reply is the only response; every other file is
\* untouched, and the file of the user keeps its previous content or is left
\* without a parseable record.
C14_FailedWriteStillReplies ==
  [][\A r \in Slots :
       WriteFails(r) =>
         /\ res'[r] = <<ReplyEnvelope(r)>>
         /\ memory'[r].conversation[Len(memory'[r].conversation)].role = "assistant"
         /\ \A f \in DOMAIN store : f # FileOf(r) => store'[f] = store[f]
         /\ DOMAIN store' \subseteq DOMAIN store \cup {FileOf(r)}
         /\ \/ store' = store
            \/ store'[FileOf(r)] = Unparseable]_vars

\* C14 witness: the write of an invocation failed, it replied 200 all the
\* same, and the file still holds the record of an earlier exchange
C14_Witness ==
  \E r \in Slots :
    /\ RepliedOnce(r)
    /\ settled[r].kind = "resolved"
    /\ saved[r] # <<>> /\ savedVersion[r] = 0
    /\ FileOf(r) \in Records
    /\ store[FileOf(r)] # saved[r][1]

----------------------------------------------------------------------------
(* C15 *)

\* the content of the first choice is a string that is not empty
UsableContent(content) == IsString(content) /\ content.v # <<>>

\* C15: whenever the collaborator call returns, the request ends with the 200
\* envelope whatever the body holds; if the content is absent, empty or
\* malformed the fallback apology is the reply, is appended as the assistant
\* turn and handed to saveMemory.
C15_AnyBodyIsAnswered200 ==
  \A r \in Slots :
    (Done(r) /\ settled[r].kind = "resolved") =>
      /\ RepliedOnce(r)
      /\ ~UsableContent(settled[r].content) =>
           /\ res[r][1].reply = Fallback
           /\ saved[r] # <<>>
           /\ saved[r][1].conversation[Len(saved[r][1].conversation)] =
                [role |-> "assistant", content |-> Fallback]

----------------------------------------------------------------------------
(* C16 *)

\* the collaborator call of slot r failed for a reason other than quota
FailedNotQuota(r) ==
  settled[r].kind = "rejected" /\ ~IsQuota(settled[r].err)

\* C16: the collaborator is invoked at most once per request, and a request
\* whose collaborator call failed for any reason other than quota exhaustion
\* (a timeout included) ends with the one generic 500 {error, details}
\* response.
C16_NoRetryAndFailureIs500 ==
  \A r \in Slots :
    /\ hfCalls[r] <= 1
    /\ FailedNotQuota(r) => (Done(r) /\ res[r] = <<ServerError>>)

C16_Witness ==
  \E r \in Slots :
    /\ Done(r)
    /\ hfCalls[r] = 1
    /\ FailedNotQuota(r)
    /\ settled[r].err.message = Str(<<"t","i","m","e","o","u","t">>)
    /\ res[r] = <<ServerError>>

----------------------------------------------------------------------------
(* C17 *)

\* the keywords of both lists found in the lower-cased text, each list counted
\* on its own
KeywordScore(t) ==
  Cardinality({i \in DOMAIN swahiliWords : Includes(ToLowerCase(t), swahiliWords[i])})
    + Cardinality({i \in DOMAIN shengWords : Includes(ToLowerCase(t), shengWords[i])})

\* C17: detectLanguage is decided by the input alone: with s the number of
\* regional-language keywords plus the number of informal-register keywords
\* found in the lower-cased text (a keyword of both lists counts twice), the
\* result is english iff s = 0, mixed iff 0 < s < 3, swahili iff s >= 3; an
\* input that is not a string, or is empty, gives english.
C17_ClassifyByKeywordCount ==
  lang # Unclassified =>
    IF ~IsString(text) \/ text.v = <<>>
      THEN lang = "english"
      ELSE /\ lang \in {"english", "mixed", "swahili"}
           /\ lang = "english" <=> KeywordScore(text.v) = 0
           /\ lang = "mixed" <=> (0 < KeywordScore(text.v) /\ KeywordScore(text.v) < 3)
           /\ lang = "swahili" <=> KeywordScore(text.v) >= 3

\* "PoaBro": poa is in both lists and bro in one, three matches
C17_Witness ==
  /\ text = Str(<<"P","o","a","B","r","o">>)
  /\ lang = "swahili"

----------------------------------------------------------------------------
(* C18 *)

\* the user the invocation in slot r was made for
UserOf(r) == userIdOf(input[r].body)

\* C18: records are isolated per userId: the record an invocation reads from
\* storage, and the record it writes, is the record of the userId it was made
\* for, never that of a different userId.
C18_RecordsIsolatedPerUser ==
  \A r \in Slots :
    /\ loadedFrom[r] = "file" => loaded[r].userId = UserOf(r)
    /\ saved[r] # <<>> => saved[r][1].userId = UserOf(r)

----------------------------------------------------------------------------
(* C19 *)

\* the turns of conv from the second on take turns between the two speakers
Alternates(conv) ==
  \A i \in 2..Len(conv) :
    /\ conv[i].role \in {"user", "assistant"}
    /\ i < Len(conv) => conv[i + 1].role # conv[i].role

\* C19 as stated: in every stored record of a sequential run of one user the
\* turns after the system turn are whole exchanges: they start with a user
\* turn, alternate user, assistant, and end with an assistant turn, so that
\* no assistant turn is left without its user turn.
C19_StoredTurnsAreWholeExchanges ==
  \A f \in Records :
    LET conv == store[f].conversation
    IN  /\ Alternates(conv)
        /\ Len(conv) > 1 =>
             /\ conv[2].role = "user"
             /\ conv[Len(conv)].role = "assistant"

\* C19 amended: in every stored record of a sequential run of one user the
\* turns after the system turn alternate and end with an assistant turn; they
\* start with a user turn while the record has fewer than 20 turns, and with
\* an assistant turn whose user turn was dropped once it has 20.
C19_StoredTurnsAlternate ==
  \A f \in Records :
    LET conv == store[f].conversation
    IN  /\ Alternates(conv)
        /\ Len(conv) > 1 => conv[Len(conv)].role = "assistant"
        /\ (Len(conv) > 1 /\ Len(conv) < 20) => conv[2].role = "user"
        /\ Len(conv) >= 20 => (Len(conv) = 20 /\ conv[2].role = "assistant")

\* a stored record of 20 turns that starts, after the system turn, with an
\* assistant turn
C19_Witness ==
  \E f \in Records :
    /\ Len(store[f].conversation) = 20
    /\ store[f].conversation[1].role = "system"
    /\ store[f].conversation[2].role = "assistant"
    /\ store[f].conversation[3].role = "user"
    /\ store[f].conversation[20].role = "assistant"

====
